---------------------------- MODULE Spec2Model ----------------------------
(***************************************************************************)
(* Model of app.py, the Streamlit "AI Interview Analyzer": one script run  *)
(* per widget interaction, a single call to the Gemini generation endpoint *)
(* (call_gemini), json.loads of the reply and the report rendering with    *)
(* its two exception handlers.                                             *)
(*                                                                         *)
(* Python strings are modelled as sequences of chunks (<<>> is the empty   *)
(* string), so that "contains", "starts with" and "unchanged" are          *)
(* decidable.  A JSON text is a record of the characters before the JSON   *)
(* value, the value, whether the value's text is complete, and the         *)
(* characters after it.                                                    *)
(***************************************************************************)
EXTENDS Integers, Sequences, FiniteSets, TLC

VARIABLES
    analyze_button,     \* st.button(...) of this run
    transcript_input,   \* st.text_area(...)
    gemini_api_key,     \* st.secrets / st.sidebar.text_input
    domain,             \* st.sidebar.selectbox("Domain/Industry")
    round_type,         \* st.sidebar.selectbox("Round Type")
    pc,                 \* position of the script run
    posts,              \* requests.post calls issued in this run
    reply,              \* what the endpoint answered to the last post
    format_json,        \* the format_json argument of the last call_gemini
    json_output,        \* return value of call_gemini
    display,            \* what the run has put on the page so far
    outcome             \* how the run ended

vars == <<analyze_button, transcript_input, gemini_api_key, domain, round_type,
          pc, posts, reply, format_json, json_output, display, outcome>>

-----------------------------------------------------------------------------
(* Bounds of the environment. *)

\* A reply document differs from the schema's canonical document in at most
\* MaxDefects members.
MaxDefects == 2

\* Largest numeral a score string may spell.
MaxNumeral == 11

-----------------------------------------------------------------------------
(* Strings *)

Contains(s, chunk) == \E i \in 1..Len(s) : s[i] = chunk

StartsWith(s, chunk) == Len(s) > 0 /\ s[1] = chunk

\* str.strip() leaves nothing: json.loads skips whitespace around the value.
IsWhitespace(s) == \A i \in 1..Len(s) : s[i] \in {" ", "  "}

-----------------------------------------------------------------------------
(* JSON values held by the members of a reply document *)

JAbsent  == [t |-> "absent", n |-> 0, s |-> <<>>]
JNull    == [t |-> "null",   n |-> 0, s |-> <<>>]
JInt(i)  == [t |-> "int",    n |-> i, s |-> <<>>]
JStr(s)  == [t |-> "str",    n |-> 0, s |-> s]
JObj     == [t |-> "obj",    n |-> 0, s |-> <<>>]
JList(k) == [t |-> "list",   n |-> k, s |-> <<>>]

Speakers == <<"A", "B">>

ScoreKeys == <<"confidence_score", "clarity_score", "empathy_score">>

FeedbackKeys == {"confidence_score", "clarity_score", "empathy_score",
                 "sentiment_label", "improvement_suggestions"}

KeyPointsKey(sp) == "key_points_speaker_" \o sp

FeedbackKey(sp) == "feedback_speaker_" \o sp

Member(sp, k) == FeedbackKey(sp) \o "." \o k

TopKeys == {"error", "summary"}
             \cup {KeyPointsKey(Speakers[i]) : i \in 1..2}
             \cup {FeedbackKey(Speakers[i]) : i \in 1..2}

Paths == TopKeys \cup {Member(Speakers[i], k) : i \in 1..2, k \in FeedbackKeys}

\* The members the schema requires (JSON_SCHEMA): everything but "error".
RequiredPaths == Paths \ {"error"}

ScorePaths == {Member(Speakers[i], ScoreKeys[j]) : i \in 1..2, j \in 1..3}

\* A document: its top-level JSON kind, the characters (string) or elements
\* (array) it holds, and for an object its members.
MkDoc(kind, str, m) == [kind |-> kind, str |-> str, m |-> m]

NoMembers == [p \in Paths |-> JAbsent]

\* No JSON value at all.
NoDoc == MkDoc("none", <<>>, NoMembers)

\* The document JSON_SCHEMA describes, filled in.
Canon ==
    MkDoc("object", <<>>,
          [p \in Paths |->
              CASE p = "error" -> JAbsent
                [] p = "summary" -> JStr(<<"ok">>)
                [] p \in {KeyPointsKey("A"), KeyPointsKey("B")} -> JStr(<<"points">>)
                [] p \in {FeedbackKey("A"), FeedbackKey("B")} -> JObj
                [] p \in ScorePaths -> JInt(7)
                [] p \in {Member("A", "sentiment_label"),
                          Member("B", "sentiment_label")} -> JStr(<<"Positive">>)
                [] OTHER -> JList(2)])

\* The ways one member can differ from the canonical document.
Defects ==
    {[p |-> "error", v |-> JStr(<<"none">>)]}
      \cup {[p |-> p, v |-> v] :
               p \in {"summary", KeyPointsKey("A"), KeyPointsKey("B")},
               v \in {JAbsent, JNull}}
      \cup {[p |-> p, v |-> v] :
               p \in {FeedbackKey("A"), FeedbackKey("B")},
               v \in {JAbsent, JNull}}
      \cup {[p |-> p, v |-> v] :
               p \in ScorePaths,
               v \in {JAbsent, JNull, JInt(MaxNumeral), JStr(<<"7">>), JStr(<<"high">>)}}
      \cup {[p |-> Member(Speakers[i], "sentiment_label"), v |-> JAbsent] : i \in 1..2}
      \cup {[p |-> Member(Speakers[i], "improvement_suggestions"), v |-> v] :
               i \in 1..2, v \in {JAbsent, JNull}}

SetMember(d, f) == [d EXCEPT !.m[f.p] = f.v]

RECURSIVE DocsUpTo(_)
DocsUpTo(k) ==
    IF k = 0 THEN {Canon}
    ELSE LET prev == DocsUpTo(k - 1)
         IN  prev \cup {SetMember(d, f) : d \in prev, f \in Defects}

\* {"summary": "ok"} and nothing else.
SummaryOnly == MkDoc("object", <<>>, [NoMembers EXCEPT !["summary"] = JStr(<<"ok">>)])

\* JSON values that are not objects.
NonObjectDocs ==
    {MkDoc("array", <<>>, NoMembers),
     MkDoc("array", <<"error">>, NoMembers),
     MkDoc("string", <<"ok">>, NoMembers),
     MkDoc("string", <<"an ", "error", " occurred">>, NoMembers),
     MkDoc("number", <<>>, NoMembers),
     MkDoc("null", <<>>, NoMembers)}

Docs == DocsUpTo(MaxDefects) \cup {SummaryOnly} \cup NonObjectDocs

-----------------------------------------------------------------------------
(* Texts that carry a JSON value *)

MkRaw(pre, doc, complete, post) ==
    [pre |-> pre, doc |-> doc, complete |-> complete, post |-> post]

\* A text with no JSON value in it.
PlainText(s) == MkRaw(s, NoDoc, FALSE, <<>>)

NoRaw == PlainText(<<>>)

\* json.dumps(value)
json_dumps(d) == MkRaw(<<>>, d, TRUE, <<>>)

\* What the model may put in the candidate's text: every document as clean
\* JSON, and the near-canonical ones wrapped in prose, fenced, padded with
\* whitespace or cut short.
ReplyTexts ==
    {json_dumps(d) : d \in Docs}
      \cup {MkRaw(pre, d, c, post) :
               pre \in {<<>>, <<" ">>, <<"Here is the analysis: ">>},
               d \in DocsUpTo(1),
               c \in BOOLEAN,
               post \in {<<>>, <<"  ">>, <<"--- end">>}}
      \cup {PlainText(<<"I cannot analyze this.">>)}

\* json.loads(text): the decoded value, or JSONDecodeError.
json_loads(raw) ==
    IF raw.doc.kind # "none" /\ raw.complete
       /\ IsWhitespace(raw.pre) /\ IsWhitespace(raw.post)
    THEN [ok |-> TRUE, doc |-> raw.doc]
    ELSE [ok |-> FALSE, doc |-> NoDoc]

-----------------------------------------------------------------------------
(* What the script puts on the page *)

Item(w, id, val) == [w |-> w, id |-> id, val |-> val, nums |-> <<>>, raw |-> <<>>]

\* st.error(msg)
ErrorItem(id, msg) == Item("error", id, JStr(msg))

\* st.code(text)
CodeItem(text) == [Item("code", "raw_output", JNull) EXCEPT !.raw = <<text>>]

\* st.plotly_chart(fig) of the radar chart over metrics_df
ChartItem(scores) == [Item("chart", "radar", JNull) EXCEPT !.nums = scores]

\* The widgets that show a part of the analysis.
SectionIds == {"summary", "key_points_A", "key_points_B", "sentiment_A",
               "sentiment_B", "radar", "suggestion_A", "suggestion_B"}

-----------------------------------------------------------------------------
(* call_gemini *)

JSON_SCHEMA == <<"summary", "key_points_speaker_A", "key_points_speaker_B",
                 "feedback_speaker_A", "feedback_speaker_B", "confidence_score",
                 "clarity_score", "empathy_score", "sentiment_label",
                 "improvement_suggestions">>

generate_analysis_prompt(transcript, dom, rt) ==
    <<"You are an expert AI Interview Analyzer and mentor.", dom, rt>>
      \o transcript
      \o <<"Generate the final analysis STRICTLY as a single JSON object">>
      \o JSON_SCHEMA

\* The request requests.post sends: the key in the query string, the prompt as
\* the only content, and generationConfig when JSON output is asked for.
Request(prompt, api_key, as_json) ==
    [key |-> api_key,
     contents |-> prompt,
     responseMimeType |-> IF as_json THEN "application/json" ELSE ""]

\* What the endpoint may answer.
Statuses == {200, 304, 429, 500}

Response(net, status, form, text, body) ==
    [net |-> net, status |-> status, form |-> form, text |-> text, body |-> body]

NoReply == Response("none", 0, "none", NoRaw, <<>>)

EnvelopeBody == <<"{candidates: [{content: {parts: [{text: ...}]}}]}">>

SmallReplies ==
    {Response("ConnectionError", 0, "none", NoRaw, <<>>)}
      \cup {Response("ok", s, "no_candidates", NoRaw, <<"{error: ", "rate limited", "}">>) :
               s \in Statuses}
      \cup {Response("ok", s, "not_json", NoRaw, <<"<html>", "Service Unavailable", "</html>">>) :
               s \in Statuses}
      \cup {Response("ok", s, "envelope", json_dumps(d), EnvelopeBody) :
               s \in Statuses, d \in DocsUpTo(1)}

Replies ==
    SmallReplies \cup {Response("ok", 200, "envelope", t, EnvelopeBody) : t \in ReplyTexts}

\* Mutant of RaisesForStatus: only server errors raise.
RaisesForStatus_ServerOnly(status) == 500 <= status /\ status < 600

\* res.raise_for_status(): HTTPError for 4xx and 5xx.
RaisesForStatus(status) == 400 <= status /\ status < 600

\* str(http_err): "<status> Client Error: <reason> for url: <endpoint>"
HttpErrText(status, api_key) ==
    <<ToString(status), " Error for url: ", "generateContent?key=">> \o api_key

\* json.dumps({"error": error_msg})
ErrorDoc(msg) == MkDoc("object", <<>>, [NoMembers EXCEPT !["error"] = JStr(msg)])

\* Mutant of GeminiFailure: the message is returned but never displayed.
GeminiFailure_Silent(msg, id, as_json, req) ==
    [ret   |-> IF as_json THEN json_dumps(ErrorDoc(msg)) ELSE PlainText(msg),
     shown |-> <<>>,
     sent  |-> <<req>>]

\* Mutant of GeminiFailure: the request is posted once more after a failure.
GeminiFailure_Retry(msg, id, as_json, req) ==
    [ret   |-> IF as_json THEN json_dumps(ErrorDoc(msg)) ELSE PlainText(msg),
     shown |-> <<ErrorItem(id, msg)>>,
     sent  |-> <<req, req>>]

\* The except branches: st.error(error_msg), then the message as the result.
GeminiFailure(msg, id, as_json, req) ==
    [ret   |-> IF as_json THEN json_dumps(ErrorDoc(msg)) ELSE PlainText(msg),
     shown |-> <<ErrorItem(id, msg)>>,
     sent  |-> <<req>>]

call_gemini(prompt, api_key, as_json, rep) ==
    LET req == Request(prompt, api_key, as_json)
        other == <<"Gemini API Error or parsing issue: ">>
    IN  CASE rep.net # "ok" ->
               GeminiFailure(other \o <<rep.net>>, "api_error", as_json, req)
          [] rep.net = "ok" /\ RaisesForStatus(rep.status) ->
               GeminiFailure(<<"Gemini API HTTP Error: ">>
                               \o HttpErrText(rep.status, api_key)
                               \o <<" - ">> \o rep.body,
                             "http_error", as_json, req)
          [] rep.net = "ok" /\ ~RaisesForStatus(rep.status) /\ rep.form = "not_json" ->
               GeminiFailure(other \o <<"Expecting value">>, "api_error", as_json, req)
          [] rep.net = "ok" /\ ~RaisesForStatus(rep.status) /\ rep.form = "no_candidates" ->
               GeminiFailure(other \o <<"'candidates'">>, "api_error", as_json, req)
          [] OTHER ->
               [ret |-> rep.text, shown |-> <<>>, sent |-> <<req>>]

-----------------------------------------------------------------------------
(* The operations of Python the report rendering uses *)

PyOk(v) == [exc |-> "", val |-> v]

PyRaise(exc) == [exc |-> exc, val |-> JNull]

\* "error" in report_data
InReportData(d) ==
    CASE d.kind = "object" -> [exc |-> "", val |-> d.m["error"].t # "absent"]
      [] d.kind \in {"array", "string"} -> [exc |-> "", val |-> Contains(d.str, "error")]
      [] OTHER -> [exc |-> "TypeError", val |-> FALSE]

\* report_data[key]
TopItem(d, key) ==
    CASE d.kind = "object" /\ d.m[key].t # "absent" -> PyOk(d.m[key])
      [] d.kind = "object" /\ d.m[key].t = "absent" -> PyRaise("KeyError")
      [] OTHER -> PyRaise("TypeError")

\* report_data.get(key, 'N/A')
TopGet(d, key) ==
    CASE d.kind = "object" /\ d.m[key].t # "absent" -> PyOk(d.m[key])
      [] d.kind = "object" /\ d.m[key].t = "absent" -> PyOk(JStr(<<"N/A">>))
      [] OTHER -> PyRaise("AttributeError")

\* scores_x[key], scores_x being report_data['feedback_speaker_x']
ScoresItem(d, sp, key) ==
    LET scores == d.m[FeedbackKey(sp)]
        v == d.m[Member(sp, key)]
    IN  CASE scores.t = "obj" /\ v.t # "absent" -> PyOk(v)
          [] scores.t = "obj" /\ v.t = "absent" -> PyRaise("KeyError")
          [] OTHER -> PyRaise("TypeError")

\* The integer a string spells, as int(str) reads it.
IsNumeral(s) == Len(s) = 1 /\ \E i \in 0..MaxNumeral : ToString(i) = s[1]

NumeralValue(s) == CHOOSE i \in 0..MaxNumeral : ToString(i) = s[1]

\* int(v)
py_int(v) ==
    CASE v.t = "int" -> [exc |-> "", n |-> v.n]
      [] v.t = "str" /\ IsNumeral(v.s) -> [exc |-> "", n |-> NumeralValue(v.s)]
      [] v.t = "str" /\ ~IsNumeral(v.s) -> [exc |-> "ValueError", n |-> 0]
      [] OTHER -> [exc |-> "TypeError", n |-> 0]

-----------------------------------------------------------------------------
(* The try block: one step per statement that displays or can raise *)

Ok(items) == [exc |-> "", key |-> "", stop |-> FALSE, items |-> items]

Raise(exc, key) == [exc |-> exc, key |-> key, stop |-> FALSE, items |-> <<>>]

Stop(items) == [exc |-> "", key |-> "", stop |-> TRUE, items |-> items]

Title(text) == Ok(<<Item("title", text, JNull)>>)

\* if "error" in report_data: st.error(...report_data['error']); st.stop()
ErrorKeyCheck(d) ==
    LET t == InReportData(d)
        e == TopItem(d, "error")
    IN  CASE t.exc # "" -> Raise(t.exc, "")
          [] t.exc = "" /\ ~t.val -> Ok(<<>>)
          [] t.exc = "" /\ t.val /\ e.exc # "" -> Raise(e.exc, "error")
          [] OTHER ->
               Stop(<<ErrorItem("analysis_failed",
                                <<"Analysis failed. Please check the logs or try a shorter transcript. Error: ">>
                                  \o e.val.s)>>)

\* st.info / st.markdown of report_data.get(key, 'N/A')
ShowTop(w, id, d, key) ==
    LET g == TopGet(d, key)
    IN  IF g.exc # "" THEN Raise(g.exc, key) ELSE Ok(<<Item(w, id, g.val)>>)

\* scores_x = report_data['feedback_speaker_x']
BindScores(d, sp) ==
    LET g == TopItem(d, FeedbackKey(sp))
    IN  IF g.exc # "" THEN Raise(g.exc, FeedbackKey(sp)) ELSE Ok(<<>>)

\* int(scores_x[key]) while metrics_df is built
Coerce(d, sp, key) ==
    LET g == ScoresItem(d, sp, key)
        c == py_int(g.val)
    IN  CASE g.exc # "" -> Raise(g.exc, key)
          [] g.exc = "" /\ c.exc # "" -> Raise(c.exc, key)
          [] OTHER -> Ok(<<>>)

\* The six numbers metrics_df holds, Speaker A's column first.
MetricsDf(d) ==
    [i \in 1..6 |->
        py_int(ScoresItem(d, Speakers[((i - 1) \div 3) + 1],
                          ScoreKeys[((i - 1) % 3) + 1]).val).n]

\* st.metric("Sentiment/Tone", scores_x['sentiment_label'])
ShowSentiment(d, sp) ==
    LET g == ScoresItem(d, sp, "sentiment_label")
    IN  IF g.exc # "" THEN Raise(g.exc, "sentiment_label")
        ELSE Ok(<<Item("metric", "sentiment_" \o sp, g.val)>>)

\* for item in scores_x['improvement_suggestions']: st.markdown(item)
ShowSuggestions(d, sp) ==
    LET g == ScoresItem(d, sp, "improvement_suggestions")
        count == IF g.val.t = "list" THEN g.val.n ELSE Len(g.val.s)
    IN  CASE g.exc # "" -> Raise(g.exc, "improvement_suggestions")
          [] g.exc = "" /\ g.val.t \notin {"list", "str"} -> Raise("TypeError", "")
          [] OTHER ->
               Ok([i \in 1..count |->
                      [Item("markdown", "suggestion_" \o sp, g.val) EXCEPT !.nums = <<i>>]])

\* Lines 166 to 235, in order.
ReportSteps(d) ==
    << ErrorKeyCheck(d),
       Title("Overall Discussion Summary"),
       ShowTop("info", "summary", d, "summary"),
       Title("Key Points: Speaker A"),
       ShowTop("markdown", "key_points_A", d, KeyPointsKey("A")),
       Title("Key Points: Speaker B"),
       ShowTop("markdown", "key_points_B", d, KeyPointsKey("B")),
       Title("Quantitative Scorecard & Feedback"),
       BindScores(d, "A"),
       BindScores(d, "B"),
       Coerce(d, "A", "confidence_score"),
       Coerce(d, "A", "clarity_score"),
       Coerce(d, "A", "empathy_score"),
       Coerce(d, "B", "confidence_score"),
       Coerce(d, "B", "clarity_score"),
       Coerce(d, "B", "empathy_score"),
       Title("Speaker A (Candidate)"),
       ShowSentiment(d, "A"),
       Title("Speaker B (Interviewer/Partner)"),
       ShowSentiment(d, "B"),
       Title("Performance Score Radar Chart"),
       Ok(<<ChartItem(MetricsDf(d))>>),
       Title("Areas for Improvement"),
       Title("Suggestions for Speaker A:"),
       ShowSuggestions(d, "A"),
       Title("Suggestions for Speaker B:"),
       ShowSuggestions(d, "B") >>

\* Run the statements until one raises or stops the script.
RECURSIVE RunSteps(_, _, _)
RunSteps(steps, i, shown) ==
    IF i > Len(steps) THEN [Ok(shown) EXCEPT !.key = "end"]
    ELSE LET s == steps[i]
         IN  CASE s.exc # "" -> [s EXCEPT !.items = shown]
               [] s.exc = "" /\ s.stop -> [s EXCEPT !.items = shown \o s.items]
               [] OTHER -> RunSteps(steps, i + 1, shown \o s.items)

\* Mutant of OnJSONDecodeError: the text is shown with what surrounds the
\* JSON value stripped off.
OnJSONDecodeError_Stripped(text) ==
    <<ErrorItem("invalid_json", <<"AI Analysis failed to return valid JSON.">>),
      CodeItem([text EXCEPT !.pre = <<>>, !.post = <<>>])>>

\* except json.JSONDecodeError
OnJSONDecodeError(text) ==
    <<ErrorItem("invalid_json", <<"AI Analysis failed to return valid JSON.">>),
      CodeItem(text)>>

\* except KeyError as ke
OnKeyError(key, text) ==
    <<ErrorItem("missing_key",
                <<"AI Analysis failed to find expected key in JSON structure. Key missing: ",
                  key>>),
      CodeItem(text)>>

Outcome(kind, exc) == [kind |-> kind, exc |-> exc]

\* Lines 163 to 242: json.loads, the report, and the two handlers.
RenderReport(text) ==
    LET parsed == json_loads(text)
        r == RunSteps(ReportSteps(parsed.doc), 1, <<>>)
    IN  CASE ~parsed.ok ->
               [items |-> OnJSONDecodeError(text),
                outcome |-> Outcome("handled", "JSONDecodeError")]
          [] parsed.ok /\ r.exc = "KeyError" ->
               [items |-> r.items \o OnKeyError(r.key, text),
                outcome |-> Outcome("handled", "KeyError")]
          [] parsed.ok /\ r.exc \notin {"", "KeyError"} ->
               [items |-> r.items, outcome |-> Outcome("uncaught", r.exc)]
          [] parsed.ok /\ r.exc = "" /\ r.stop ->
               [items |-> r.items, outcome |-> Outcome("stopped", "")]
          [] OTHER ->
               [items |-> r.items, outcome |-> Outcome("report", "")]

-----------------------------------------------------------------------------
(* The script run *)

SAMPLE_TRANSCRIPT == <<"Speaker A: Good morning.", "Speaker B: Good morning.">>

Transcripts == {<<>>, SAMPLE_TRANSCRIPT}

ApiKeys == {<<>>, <<"AIza", "SyExample">>, <<"sk-", "example">>}

Domains == {"Tech/IT", "General Discussion"}

RoundTypes == {"One-on-One Interview"}

NoOutcome == Outcome("running", "")

Init ==
    /\ analyze_button = FALSE
    /\ transcript_input = SAMPLE_TRANSCRIPT
    /\ gemini_api_key = <<>>
    /\ domain = "Tech/IT"
    /\ round_type = "One-on-One Interview"
    /\ pc = "idle"
    /\ posts = <<>>
    /\ reply = NoReply
    /\ format_json = FALSE
    /\ json_output = NoRaw
    /\ display = <<>>
    /\ outcome = NoOutcome

\* Lines 150 to 156 and 244 to 245: where the run goes before any request.
Guard(button, transcript, api_key) ==
    CASE button /\ transcript # <<>> /\ api_key # <<>> /\ ~StartsWith(api_key, "AIza") ->
           [pc |-> "done",
            items |-> <<ErrorItem("invalid_key",
                                  <<"Invalid or incomplete Gemini API Key. Please check your input.">>)>>,
            outcome |-> Outcome("stopped", "")]
      [] button /\ transcript # <<>> /\ api_key # <<>> /\ StartsWith(api_key, "AIza") ->
           [pc |-> "dispatch",
            items |-> <<Item("title", "Detailed Analysis Report", JNull)>>,
            outcome |-> NoOutcome]
      [] button /\ ~(transcript # <<>> /\ api_key # <<>>) /\ api_key = <<>> ->
           [pc |-> "done",
            items |-> <<ErrorItem("key_required",
                                  <<"Please enter your Gemini API Key to run the analysis.">>)>>,
            outcome |-> Outcome("key_required", "")]
      [] OTHER ->
           [pc |-> "done", items |-> <<>>, outcome |-> Outcome("nothing", "")]

\* A widget interaction reruns the script from the top with an empty page.
Rerun(button, transcript, api_key, dom, rt) ==
    /\ pc \in {"idle", "done"}
    /\ analyze_button' = button
    /\ transcript_input' = transcript
    /\ gemini_api_key' = api_key
    /\ domain' = dom
    /\ round_type' = rt
    /\ LET g == Guard(button, transcript, api_key)
       IN  /\ pc' = g.pc
           /\ display' = g.items
           /\ outcome' = g.outcome
    /\ posts' = <<>>
    /\ reply' = NoReply
    /\ format_json' = FALSE
    /\ json_output' = NoRaw

\* Lines 158 to 161: the prompt and the one call of call_gemini.
Analyze(rep) ==
    /\ pc = "dispatch"
    /\ LET prompt == generate_analysis_prompt(transcript_input, domain, round_type)
           r == call_gemini(prompt, gemini_api_key, TRUE, rep)
       IN  /\ posts' = posts \o r.sent
           /\ display' = display \o r.shown
           /\ json_output' = r.ret
    /\ reply' = rep
    /\ format_json' = TRUE
    /\ pc' = "interpret"
    /\ UNCHANGED <<analyze_button, transcript_input, gemini_api_key, domain,
                   round_type, outcome>>

\* Lines 163 to 242.
Interpret ==
    /\ pc = "interpret"
    /\ LET r == RenderReport(json_output)
       IN  /\ display' = display \o r.items
           /\ outcome' = r.outcome
    /\ pc' = "done"
    /\ UNCHANGED <<analyze_button, transcript_input, gemini_api_key, domain,
                   round_type, posts, reply, format_json, json_output>>

Next ==
    \/ \E button \in BOOLEAN, transcript \in Transcripts, api_key \in ApiKeys,
          dom \in Domains, rt \in RoundTypes :
            Rerun(button, transcript, api_key, dom, rt)
    \/ \E rep \in Replies : Analyze(rep)
    \/ Interpret

Spec == Init /\ [][Next]_vars

-----------------------------------------------------------------------------
(* call_gemini on its own: any prompt, any credential, either mode *)

InitSend ==
    /\ analyze_button = FALSE
    /\ transcript_input = SAMPLE_TRANSCRIPT
    /\ gemini_api_key = <<>>
    /\ domain = "Tech/IT"
    /\ round_type = "One-on-One Interview"
    /\ pc = "caller"
    /\ posts = <<>>
    /\ reply = NoReply
    /\ format_json = FALSE
    /\ json_output = NoRaw
    /\ display = <<>>
    /\ outcome = NoOutcome

\* json_output = call_gemini(prompt, api_key, format_json)
SendCall(transcript, api_key, fmt, rep) ==
    /\ pc = "caller"
    /\ transcript_input' = transcript
    /\ gemini_api_key' = api_key
    /\ format_json' = fmt
    /\ reply' = rep
    /\ LET prompt == generate_analysis_prompt(transcript, domain, round_type)
           r == call_gemini(prompt, api_key, fmt, rep)
       IN  /\ posts' = posts \o r.sent
           /\ display' = display \o r.shown
           /\ json_output' = r.ret
    /\ pc' = "returned"
    /\ UNCHANGED <<analyze_button, domain, round_type, outcome>>

\* The caller drops the result and starts over.
SendReturn ==
    /\ pc = "returned"
    /\ pc' = "caller"
    /\ posts' = <<>>
    /\ reply' = NoReply
    /\ format_json' = FALSE
    /\ json_output' = NoRaw
    /\ display' = <<>>
    /\ transcript_input' = SAMPLE_TRANSCRIPT
    /\ gemini_api_key' = <<>>
    /\ UNCHANGED <<analyze_button, domain, round_type, outcome>>

NextSend ==
    \/ \E transcript \in Transcripts, api_key \in ApiKeys, fmt \in BOOLEAN,
          rep \in SmallReplies :
            SendCall(transcript, api_key, fmt, rep)
    \/ SendReturn

SpecSend == InitSend /\ [][NextSend]_vars

-----------------------------------------------------------------------------
(* Properties *)

\* The value json.loads gives for the text call_gemini returned.
ReportData == json_loads(json_output)

\* A request was made in this run and its result has been interpreted.
Interpreted == pc = "done" /\ posts # <<>>

Shown(id) == \E i \in 1..Len(display) : display[i].id = id

SectionShown == \E i \in 1..Len(display) : display[i].id \in SectionIds

\* The last path component of a member.
Names(path, key) ==
    \/ path = key
    \/ \E i \in 1..2, k \in FeedbackKeys : path = Member(Speakers[i], k) /\ key = k

\* The object d lacks the member at path (whose parent object is there).
Omits(d, path) ==
    /\ d.kind = "object"
    /\ d.m[path].t = "absent"
    /\ \A i \in 1..2, k \in FeedbackKeys :
          path = Member(Speakers[i], k) => d.m[FeedbackKey(Speakers[i])].t = "obj"

Coercible(v) == v.t = "int" \/ (v.t = "str" /\ IsNumeral(v.s))

InRange(v) ==
    \/ v.t = "int" /\ v.n \in 1..10
    \/ v.t = "str" /\ IsNumeral(v.s) /\ NumeralValue(v.s) \in 1..10

\* Every required member is there, with objects for the two feedbacks.
Complete(d) ==
    /\ d.kind = "object"
    /\ \A p \in RequiredPaths : d.m[p].t # "absent"
    /\ \A i \in 1..2 : d.m[FeedbackKey(Speakers[i])].t = "obj"

FullyPopulated(d) == Complete(d) /\ \A p \in ScorePaths : InRange(d.m[p])

\* call_gemini took one of its except branches for this reply.
CallFailed(rep) ==
    \/ rep.net # "ok"
    \/ rep.status \in 400..599
    \/ rep.form # "envelope"

\* The returned text is the HTTP error for this reply: it names the status and
\* carries the response body.
HttpStatusError(text, rep) ==
    LET p == json_loads(text)
        e == p.doc.m["error"]
    IN  /\ p.ok
        /\ p.doc.kind = "object"
        /\ e.t = "str"
        /\ StartsWith(e.s, "Gemini API HTTP Error: ")
        /\ Contains(e.s, ToString(rep.status))
        /\ \A i \in 1..Len(rep.body) : Contains(e.s, rep.body[i])

\* C1 (as claimed): no report section is on the page unless the reply is a fully
\* populated document, every required member present and every score an
\* integer in 1..10.
C1_NoPartialReport ==
    SectionShown => (ReportData.ok /\ FullyPopulated(ReportData.doc))

\* C2 (as claimed): when call_gemini returns from a call with an empty
\* credential, no request was posted and the result is an error that no
\* response of the endpoint produced.
C2_EmptyCredentialNeverSent ==
    (pc = "returned" /\ gemini_api_key = <<>>)
        => (posts = <<>> /\ reply = NoReply /\ json_output # NoRaw)

\* C3 (as claimed): when the reply is a JSON object that omits a required
\* member F, the run ends in the key error naming F, with no report section
\* rendered and no placeholder shown.
C3_MissingFieldIsSchemaError ==
    \A f \in RequiredPaths :
        (Interpreted /\ ReportData.ok /\ Omits(ReportData.doc, f)
           /\ ReportData.doc.m["error"].t = "absent")
          => /\ outcome = Outcome("handled", "KeyError")
             /\ ~SectionShown
             /\ \E i \in 1..Len(display) :
                   /\ display[i].id = "missing_key"
                   /\ \E j \in 1..Len(display[i].val.s) : Names(f, display[i].val.s[j])

\* C4: when the text call_gemini returned does not parse as JSON, the run ends
\* in the invalid-JSON error followed by that very text, and no report section
\* is rendered.
C4_MalformedJsonIsParseError ==
    (Interpreted /\ ~ReportData.ok)
        => /\ outcome = Outcome("handled", "JSONDecodeError")
           /\ ~SectionShown
           /\ Len(display) = 3
           /\ display[2].w = "error" /\ display[2].id = "invalid_json"
           /\ display[3].w = "code" /\ display[3].raw = <<json_output>>

\* C4's case: a reply whose JSON is wrapped in other text has been interpreted.
C4_Witness ==
    /\ Interpreted
    /\ ~ReportData.ok
    /\ json_output.doc.kind = "object"
    /\ json_output.pre = <<"Here is the analysis: ">>

\* The same error as call_gemini returns it when JSON was not asked for: the
\* bare message.
HttpStatusErrorText(text, rep) ==
    /\ text.doc.kind = "none"
    /\ StartsWith(text.pre, "Gemini API HTTP Error: ")
    /\ Contains(text.pre, ToString(rep.status))
    /\ \A i \in 1..Len(rep.body) : Contains(text.pre, rep.body[i])

\* C5 (as claimed): every response with a status outside 200..299 comes back
\* from call_gemini as the HTTP error naming the status and carrying the body.
C5_EveryNon2xxIsHttpError ==
    (pc \in {"interpret", "done"} /\ reply.net = "ok" /\ reply.status \notin 200..299)
        => HttpStatusError(json_output, reply)

\* C5 (amended): every response with a 4xx or 5xx status comes back from
\* call_gemini as the HTTP error naming the status and carrying the body (as
\* the bare message had JSON not been asked for), and the run ends in
\* "Analysis failed" with no report section and no other error.
C5_Every4xx5xxIsHttpError ==
    (pc \in {"interpret", "done"} /\ reply.net = "ok" /\ reply.status \in 400..599)
        => /\ HttpStatusError(json_output, reply)
           /\ HttpStatusErrorText(
                  call_gemini(generate_analysis_prompt(transcript_input, domain, round_type),
                              gemini_api_key, FALSE, reply).ret, reply)
           /\ Shown("http_error")
           /\ ~Shown("api_error")
           /\ pc = "done" =>
                 /\ outcome = Outcome("stopped", "")
                 /\ Shown("analysis_failed")
                 /\ ~SectionShown
                 /\ ~Shown("invalid_json") /\ ~Shown("missing_key")

\* C5's case: a 429 has been answered and the run is over.
C5_Witness == pc = "done" /\ reply.net = "ok" /\ reply.status = 429

\* C6 (as claimed): with every required member present, scores that int()
\* accepts are plotted as those integers, and a score it does not accept ends
\* the run in a reported error.
C6_NonCoercibleIsSchemaError ==
    (Interpreted /\ ReportData.ok /\ Complete(ReportData.doc)
       /\ ReportData.doc.m["error"].t = "absent")
      => IF \A p \in ScorePaths : Coercible(ReportData.doc.m[p])
         THEN outcome.kind = "report"
         ELSE outcome.kind = "handled"

\* The step in which call_gemini runs.
CallStep == pc = "dispatch" /\ pc' = "interpret"

\* C7 (as claimed): the call of call_gemini changes nothing on the page and
\* nothing the caller owns.
C7_NoSideEffect ==
    [][CallStep =>
          /\ display' = display
          /\ UNCHANGED <<analyze_button, transcript_input, gemini_api_key, domain,
                         round_type>>]_vars

\* C7 (amended): the call of call_gemini posts one request and changes nothing
\* the caller owns; on success the page is unchanged, and on each failure path
\* the page gains exactly one st.error holding the message that is returned.
C7_OnlyErrorDisplayed ==
    [][CallStep =>
          /\ UNCHANGED <<analyze_button, transcript_input, gemini_api_key, domain,
                         round_type>>
          /\ Len(posts') = Len(posts) + 1
          /\ IF CallFailed(reply')
             THEN /\ Len(display') = Len(display) + 1
                  /\ SubSeq(display', 1, Len(display)) = display
                  /\ display'[Len(display')].w = "error"
                  /\ display'[Len(display')].val = json_loads(json_output').doc.m["error"]
             ELSE display' = display]_vars

\* C7's case: call_gemini has failed on a rejected request and returned.
C7_Witness == pc = "interpret" /\ reply.net = "ok" /\ reply.status = 500

\* A widget interaction starts the script again.
RerunStep == pc \in {"idle", "done"} /\ vars' # vars

\* C8: a run posts at most one request, whatever fails; only call_gemini's
\* step posts, and it posts once; the next interaction can always start a new
\* run, which begins with no request, no reply and no result carried over.
C8_SingleAttempt ==
    /\ [](Len(posts) <= 1)
    /\ [](pc \in {"interpret", "done"} /\ reply # NoReply => Len(posts) = 1)
    /\ [](pc = "done" =>
             ENABLED Rerun(TRUE, SAMPLE_TRANSCRIPT, <<"AIza", "SyExample">>,
                           "Tech/IT", "One-on-One Interview"))
    /\ [][/\ posts' # posts =>
                \/ CallStep /\ Len(posts') = Len(posts) + 1
                \/ RerunStep /\ posts' = <<>>
          /\ RerunStep =>
                /\ posts' = <<>>
                /\ reply' = NoReply
                /\ json_output' = NoRaw
                /\ ~SectionShown'
                /\ ~Shown("http_error")' /\ ~Shown("api_error")'
                /\ ~Shown("analysis_failed")']_vars

\* C8's case: an analysis has failed after its one request.
C8_Witness ==
    /\ Interpreted
    /\ outcome.kind \in {"stopped", "handled", "uncaught"}
    /\ Len(posts) = 1

\* C9 (as claimed): "Analysis failed" is shown exactly when call_gemini failed,
\* and then with no report section.
C9_FailedIffCallFailed ==
    Interpreted =>
        /\ Shown("analysis_failed") <=> CallFailed(reply)
        /\ CallFailed(reply) => ~SectionShown

\* C10 (as claimed): a run started by the analyze button ends with the complete
\* report or with an error on the page, never with nothing and never in an
\* exception no handler catches.
C10_ReportOrDiagnostic ==
    (pc = "done" /\ analyze_button)
        => \/ outcome.kind = "report"
           \/ /\ outcome.kind \in {"stopped", "handled", "key_required"}
              /\ \E i \in 1..Len(display) : display[i].w = "error"

=============================================================================
